---- MODULE Spec2Model ----
(***************************************************************************)
(* Model of src/src/octtree.rs: the bucketed octree of a Barnes-Hut code.  *)
(*                                                                         *)
(* Numbers.  An f32 coordinate is modelled by the integer n standing for   *)
(* the value n / Unit.  Fl rounds an exact result to the 24 significant    *)
(* bits of an f32 (round to nearest, ties to even), so the geometry        *)
(* (center, extent, child boxes, the octant test) is computed with the     *)
(* rounding the code has.  Masses are small integers, whose f32 sums are   *)
(* exact.  The weighted sums and the quotient of compute are kept as exact *)
(* rationals <<n, d>>: the rounding of the aggregation is not modelled.    *)
(* Signed zeros and NaN are not modelled: is_sign_positive(d) is d >= 0,   *)
(* which is what it gives for every difference of two finite f32 that are  *)
(* not both zeros of opposite sign.                                        *)
(***************************************************************************)
EXTENDS Integers, Sequences, FiniteSets, TLC

\* ---------------------------------------------------------------- bounds
\* longest free tail appended to a base input
MaxExtra == 2
\* number of calls of the public interface made after construct returned
MaxApiCalls == 1

\* ------------------------------------------------------------- constants
\* slots of a node's bucket: [usize; 8], Vec3x8, f32x8, and `count < 8`
Capacity == 8
\* significand width of f32
Mantissa == 24
\* grid steps per 1.0
Unit == 16

Lanes == 0..(Capacity - 1)
Octants == 0..7

\* ------------------------------------------------------------ arithmetic
Abs(n) == IF n < 0 THEN -n ELSE n

\* f32 rounding of an exact result n: nearest value with Mantissa significant
\* bits, ties to the even significand
Fl(n) ==
    LET a == Abs(n)
        s == CHOOSE k \in 0..7 :
                /\ a \div (2 ^ k) < 2 ^ Mantissa
                /\ \A j \in 0..(k - 1) : a \div (2 ^ j) >= 2 ^ Mantissa
        q == a \div (2 ^ s)
        r == a % (2 ^ s)
        up == \/ 2 * r > 2 ^ s
              \/ (2 * r = 2 ^ s /\ q % 2 = 1)
        m == (IF up THEN q + 1 ELSE q) * (2 ^ s)
    IN  IF n < 0 THEN -m ELSE m

RECURSIVE GCD(_, _)
GCD(a, b) == IF b = 0 THEN a ELSE GCD(b, a % b)

\* the rational n / d (d # 0) in lowest terms with a positive denominator
Rat(n, d) ==
    LET g == GCD(Abs(n), Abs(d))
        sgn == IF d < 0 THEN -1 ELSE 1
    IN  <<sgn * (n \div g), sgn * (d \div g)>>

RAdd(p, q) == Rat(p[1] * q[2] + q[1] * p[2], p[2] * q[2])
\* k * p for an integer k (the common factor of k and p's denominator first)
RScale(k, p) ==
    LET g == GCD(Abs(k), p[2])
    IN  Rat((k \div g) * p[1], p[2] \div g)
\* p / k for an integer k # 0
RDiv(p, k) ==
    LET g == GCD(Abs(p[1]), Abs(k))
    IN  IF g = 0 THEN <<0, 1>> ELSE Rat(p[1] \div g, p[2] * (k \div g))

Zero3 == <<0, 0, 0>>
RZero3 == <<<<0, 1>>, <<0, 1>>, <<0, 1>>>>

\* Vec3 operations on coordinates, each component rounded as f32
VAdd(a, b) == [k \in 1..3 |-> Fl(a[k] + b[k])]
VSub(a, b) == [k \in 1..3 |-> Fl(a[k] - b[k])]
\* division of a Vec3 by 2.0 or 4.0: exact in f32 (no underflow on the grid)
VDiv(a, k) == [k2 \in 1..3 |-> a[k2] \div k]
VMulComp(a, b) == [k \in 1..3 |-> a[k] * b[k]]
Min(a, b) == IF a <= b THEN a ELSE b
Max(a, b) == IF a >= b THEN a ELSE b
min_by_component(a, b) == [k \in 1..3 |-> Min(a[k], b[k])]
max_by_component(a, b) == [k \in 1..3 |-> Max(a[k], b[k])]

\* Vec3 operations on rationals (the aggregation)
RVAdd(a, b) == [k \in 1..3 |-> RAdd(a[k], b[k])]
RVScale(m, a) == [k \in 1..3 |-> RScale(m, a[k])]
RVDiv(a, m) == [k \in 1..3 |-> RDiv(a[k], m)]
RVOfInt(a) == [k \in 1..3 |-> <<a[k], 1>>]

\* reduce_add of an 8-lane vector: all eight lanes are added
reduce_add(v) == v[0] + v[1] + v[2] + v[3] + v[4] + v[5] + v[6] + v[7]

\* ------------------------------------------------------------------ node
ZeroLanes == [s \in Lanes |-> 0]

\* Octree::default().  point = (indices, positions, masses); children is <<>>
\* for None and the tuple of the eight children for Some.
default ==
    [ point      |-> <<ZeroLanes, [x |-> ZeroLanes, y |-> ZeroLanes, z |-> ZeroLanes], ZeroLanes>>,
      count      |-> 0,
      com        |-> RZero3,
      total_mass |-> 0,
      children   |-> <<>>,
      center     |-> Zero3,
      extent     |-> Zero3 ]

offsets ==
    << <<-1, -1, -1>>, <<-1, -1, 1>>, <<-1, 1, -1>>, <<-1, 1, 1>>,
       <<1, -1, -1>>, <<1, -1, 1>>, <<1, 1, -1>>, <<1, 1, 1>> >>

\* the eight children get_child creates for a node that has none
new_children(self) ==
    [c \in 1..8 |->
        [default EXCEPT
            !.extent = VDiv(self.extent, 2),
            !.center = VAdd(self.center, VDiv(VMulComp(self.extent, offsets[c]), 4))]]

\* get_child(idx): the node after the call (the children exist afterwards);
\* the reference it returns is children[idx + 1] of that node
get_child(self, idx) ==
    IF self.children # <<>> THEN self ELSE [self EXCEPT !.children = new_children(self)]

\* the octant code of add_point's else branch
child_idx(self, point) ==
    LET diff == VSub(point, self.center)
        bit(d) == IF d >= 0 THEN 1 ELSE 0
    IN  4 * bit(diff[1]) + 2 * bit(diff[2]) + bit(diff[3])

\* store with a slip: the point is written, `self.count += 1` is forgotten
store_no_increment(self, idx, point, mass) ==
    LET count == self.count
        p == self.point
    IN  [self EXCEPT
            !.point = << [p[1] EXCEPT ![count] = idx],
                         [x |-> [p[2].x EXCEPT ![count] = point[1]],
                          y |-> [p[2].y EXCEPT ![count] = point[2]],
                          z |-> [p[2].z EXCEPT ![count] = point[3]]],
                         [p[3] EXCEPT ![count] = mass] >>]

\* add_point's then branch: the point goes to slot `count`
store(self, idx, point, mass) ==
    LET count == self.count
        p == self.point
    IN  [self EXCEPT
            !.point = << [p[1] EXCEPT ![count] = idx],
                         [x |-> [p[2].x EXCEPT ![count] = point[1]],
                          y |-> [p[2].y EXCEPT ![count] = point[2]],
                          z |-> [p[2].z EXCEPT ![count] = point[3]]],
                         [p[3] EXCEPT ![count] = mass] >>,
            !.count = count + 1]

RECURSIVE add_point(_, _, _, _)

\* add_point with a slip: a full node keeps the new point in its last slot and
\* sends the point that was there down to the child
add_point_evict(self, idx, point, mass) ==
    IF self.count < Capacity
    THEN store(self, idx, point, mass)
    ELSE LET last == Capacity - 1
             old == <<self.point[1][last],
                      <<self.point[2].x[last], self.point[2].y[last], self.point[2].z[last]>>,
                      self.point[3][last]>>
             c == child_idx(self, old[2])
             withKids == get_child(self, c)
             kept == store([withKids EXCEPT !.count = last], idx, point, mass)
         IN  [kept EXCEPT
                !.children[c + 1] = add_point(withKids.children[c + 1], old[1], old[2], old[3])]

\* add_point with a slip: the children are created as soon as the bucket fills
add_point_eager(self, idx, point, mass) ==
    IF self.count < Capacity
    THEN LET n == store(self, idx, point, mass)
         IN  IF n.count = Capacity THEN get_child(n, 0) ELSE n
    ELSE LET c == child_idx(self, point)
             withKids == get_child(self, c)
         IN  [withKids EXCEPT
                !.children[c + 1] = add_point(withKids.children[c + 1], idx, point, mass)]

\* add_point with a slip: the bucket test is off by one (count < 7)
add_point_seven(self, idx, point, mass) ==
    IF self.count < Capacity - 1
    THEN store(self, idx, point, mass)
    ELSE LET c == child_idx(self, point)
             withKids == get_child(self, c)
         IN  [withKids EXCEPT
                !.children[c + 1] = add_point(withKids.children[c + 1], idx, point, mass)]

add_point(self, idx, point, mass) ==
    IF self.count < Capacity
    THEN store(self, idx, point, mass)
    ELSE LET c == child_idx(self, point)
             withKids == get_child(self, c)
         IN  [withKids EXCEPT
                !.children[c + 1] = add_point(withKids.children[c + 1], idx, point, mass)]

RECURSIVE fold_children(_, _)

\* fold_children with a slip: a child's com is added without its weight
fold_unweighted(kids, k) ==
    IF k = 0 THEN <<RZero3, 0>>
    ELSE LET a == fold_children(kids, k - 1)
             b == kids[k]
         IN  <<RVAdd(a[1], b.com), a[2] + b.total_mass>>

\* the fold of compute over the (already computed) children, in order
fold_children(kids, k) ==
    IF k = 0 THEN <<RZero3, 0>>
    ELSE LET a == fold_children(kids, k - 1)
             b == kids[k]
         IN  <<RVAdd(a[1], RVScale(b.total_mass, b.com)), a[2] + b.total_mass>>

RECURSIVE compute(_)

\* compute with a slip: the children are folded without being computed first
compute_stale(self) ==
    LET self_com == self.point[2]
        self_mass == self.point[3]
        local == << reduce_add([s \in Lanes |-> self_com.x[s] * self_mass[s]]),
                    reduce_add([s \in Lanes |-> self_com.y[s] * self_mass[s]]),
                    reduce_add([s \in Lanes |-> self_com.z[s] * self_mass[s]]) >>
        kids == self.children
        folded == IF kids = <<>> THEN <<RZero3, 0>> ELSE fold_children(kids, 8)
        com == RVAdd(RVOfInt(local), folded[1])
        total_mass == reduce_add(self_mass) + folded[2]
    IN  [self EXCEPT
            !.total_mass = total_mass,
            !.com = IF total_mass = 0 THEN RZero3 ELSE RVDiv(com, total_mass)]

\* compute with a slip: com is the weighted sum, not divided by the mass
compute_no_divide(self) ==
    LET self_com == self.point[2]
        self_mass == self.point[3]
        local == << reduce_add([s \in Lanes |-> self_com.x[s] * self_mass[s]]),
                    reduce_add([s \in Lanes |-> self_com.y[s] * self_mass[s]]),
                    reduce_add([s \in Lanes |-> self_com.z[s] * self_mass[s]]) >>
        kids == IF self.children = <<>> THEN <<>>
                ELSE [c \in 1..8 |-> compute(self.children[c])]
        folded == IF kids = <<>> THEN <<RZero3, 0>> ELSE fold_children(kids, 8)
        com == RVAdd(RVOfInt(local), folded[1])
        total_mass == reduce_add(self_mass) + folded[2]
    IN  [self EXCEPT
            !.children = kids,
            !.total_mass = total_mass,
            !.com = IF total_mass = 0 THEN RZero3 ELSE com]

compute(self) ==
    LET self_com == self.point[2]
        self_mass == self.point[3]
        local == << reduce_add([s \in Lanes |-> self_com.x[s] * self_mass[s]]),
                    reduce_add([s \in Lanes |-> self_com.y[s] * self_mass[s]]),
                    reduce_add([s \in Lanes |-> self_com.z[s] * self_mass[s]]) >>
        kids == IF self.children = <<>> THEN <<>>
                ELSE [c \in 1..8 |-> compute(self.children[c])]
        folded == IF kids = <<>> THEN <<RZero3, 0>> ELSE fold_children(kids, 8)
        com == RVAdd(RVOfInt(local), folded[1])
        total_mass == reduce_add(self_mass) + folded[2]
    IN  [self EXCEPT
            !.children = kids,
            !.total_mass = total_mass,
            !.com = IF total_mass = 0 THEN RZero3 ELSE RVDiv(com, total_mass)]

\* find(idx): <<>> for None, <<path>> for Some(node), the node named by the
\* path of child numbers leading to it from the node find was called on
RECURSIVE find(_, _, _)
find(self, idx, path) ==
    IF \E s \in Lanes : self.point[1][s] = idx
    THEN <<path>>
    ELSE IF self.children = <<>> THEN <<>>
    ELSE LET hit == {c \in Octants : find(self.children[c + 1], idx, Append(path, c)) # <<>>}
         IN  IF hit = {} THEN <<>>
             ELSE LET c == CHOOSE c \in hit : \A d \in hit : c <= d
                  IN  find(self.children[c + 1], idx, Append(path, c))

\* ------------------------------------------------------- reading a tree
\* the paths (sequences of child numbers) of the nodes of a tree
RECURSIVE Paths(_)
Paths(self) ==
    {<<>>} \cup
    (IF self.children = <<>> THEN {}
     ELSE UNION {{<<c>> \o p : p \in Paths(self.children[c + 1])} : c \in Octants})

RECURSIVE NodeAt(_, _)
NodeAt(self, path) ==
    IF path = <<>> THEN self ELSE NodeAt(self.children[Head(path) + 1], Tail(path))

\* the occupied slots of one node: <<index, position, mass>> per slot < count
Slot(self, s) ==
    <<self.point[1][s], <<self.point[2].x[s], self.point[2].y[s], self.point[2].z[s]>>,
      self.point[3][s]>>
Bucket(self) == [s \in 0..(self.count - 1) |-> Slot(self, s)]
Bucket1(self) == [s \in 1..self.count |-> Slot(self, s - 1)]

\* the path add_point(point) takes from `self`: the child numbers chosen at
\* the full nodes it passes, down to the node that stores the point
RECURSIVE descent(_, _)
descent(self, point) ==
    IF self.count < Capacity THEN <<>>
    ELSE LET c == child_idx(self, point)
         IN  <<c>> \o (IF self.children = <<>> THEN <<>>
                       ELSE descent(self.children[c + 1], point))

\* the nodes compute() is called on, in the order the calls return
RECURSIVE compute_order(_, _)
RECURSIVE compute_kids(_, _, _)
compute_kids(self, path, k) ==
    IF k = 0 THEN <<>>
    ELSE compute_kids(self, path, k - 1)
         \o compute_order(self.children[k], Append(path, k - 1))
compute_order(self, path) ==
    (IF self.children = <<>> THEN <<>> ELSE compute_kids(self, path, 8)) \o <<path>>

IsPrefix(p, q) == Len(p) <= Len(q) /\ SubSeq(q, 1, Len(p)) = p
Prefixes(q) == {SubSeq(q, 1, k) : k \in 0..Len(q)}

\* ---------------------------------------------------------------- inputs
\* a position given in half units
P(a, b, c) == <<a * (Unit \div 2), b * (Unit \div 2), c * (Unit \div 2)>>
Big == (2 ^ (Mantissa - 1)) * Unit

\* the eight points of tests::test_octree_correctness, masses 1
Corners ==
    << P(-2, -2, -2), P(-2, -2, 2), P(-2, 2, -2), P(-2, 2, 2),
       P(2, -2, -2), P(2, -2, 2), P(2, 2, -2), P(2, 2, 2) >>
\* eight points of the octant x, y, z >= 0 of that cube
Cluster ==
    << P(0, 0, 0), P(2, 2, 2), P(1, 1, 1), P(2, 0, 0),
       P(0, 2, 0), P(0, 0, 2), P(2, 2, 0), P(1, 2, 1) >>
\* coincident points: a bounding box of zero volume
Same(n) == [k \in 1..n |-> P(2, 2, 2)]
\* two adjacent f32 values, 8388608.0 and 8388609.0, on the x axis
BigPair == << <<Big, 0, 0>>, <<Big + Unit, 0, 0>> >>

Ones(n) == [k \in 1..n |-> 1]
Bases ==
    { [points |-> <<>>, masses |-> <<>>],
      [points |-> BigPair, masses |-> Ones(2)],
      [points |-> Corners, masses |-> Ones(8)],
      [points |-> Same(8), masses |-> Ones(8)],
      [points |-> Same(16), masses |-> Ones(16)],
      [points |-> Corners \o Cluster, masses |-> Ones(16)] }

TailPoints == {P(0, 0, 0), P(1, 1, 1), P(2, 2, 2), P(2, 2, 0), P(-2, 1, 0)}
Masses == {-1, 0, 1}
Tails(n) == UNION {[1..k -> TailPoints \X Masses] : k \in 0..n}

\* ----------------------------------------------------------------- state
VARIABLES
    points,     \* construct's argument `points`
    masses,     \* construct's argument `masses`
    pc,         \* where construct is: "start", "insert", "done" (returned)
    i,          \* the index the for_each of construct is at
    octree,     \* the root node
    query,      \* the argument of the last find (-1: none yet)
    found,      \* the result of the last find
    routed,     \* history: per node path, the indices add_point was called with
    visited,    \* history: the nodes compute was called on by construct
    returned,   \* history: the tree as construct returned it
    calls       \* calls of add_point, get_child, compute made after construct

vars == <<points, masses, pc, i, octree, query, found, routed, visited, returned, calls>>

InitWith(tails) ==
    /\ \E b \in Bases, t \in tails :
         /\ points = b.points \o [k \in 1..Len(t) |-> t[k][1]]
         /\ masses = b.masses \o [k \in 1..Len(t) |-> t[k][2]]
    /\ pc = "start"
    /\ i = 0
    /\ octree = default
    /\ query = -1
    /\ found = <<>>
    /\ routed = <<>>
    /\ visited = <<>>
    /\ returned = default
    /\ calls = 0

Init == InitWith(Tails(MaxExtra))

\* points.iter().copied().reduce(Vec3::min_by_component) over the first k
RECURSIVE min_bound(_, _)
min_bound(seq, k) ==
    IF k = 1 THEN seq[1] ELSE min_by_component(min_bound(seq, k - 1), seq[k])

\* points.iter().copied().reduce(Vec3::max_by_component) over the first k
RECURSIVE max_bound(_, _)
max_bound(seq, k) ==
    IF k = 1 THEN seq[1] ELSE max_by_component(max_bound(seq, k - 1), seq[k])

\* construct, lines 18-41: the empty input returns the default node, any
\* other input sets the root's box
Start ==
    /\ pc = "start"
    /\ IF Len(points) = 0
       THEN /\ pc' = "done"
            /\ octree' = default
       ELSE LET lo == min_bound(points, Len(points))
                hi == max_bound(points, Len(points))
            IN  /\ octree' = [default EXCEPT
                                !.center = VDiv(VAdd(lo, hi), 2),
                                !.extent = VSub(hi, lo)]
                /\ pc' = "insert"
    /\ returned' = default
    /\ UNCHANGED <<points, masses, i, query, found, routed, visited, calls>>

\* the history of one add_point(idx, point, ..) call on the root
Route(idx, point) ==
    LET d == descent(octree, point)
        old(p) == IF p \in DOMAIN routed THEN routed[p] ELSE <<>>
    IN  [p \in DOMAIN routed \cup Prefixes(d) |->
            IF IsPrefix(p, d) THEN Append(old(p), idx) ELSE old(p)]

\* construct, lines 46-52: one iteration of the for_each
Insert ==
    /\ pc = "insert"
    /\ i < Len(points)
    /\ octree' = add_point(octree, i, points[i + 1], masses[i + 1])
    /\ routed' = Route(i, points[i + 1])
    /\ i' = i + 1
    /\ UNCHANGED <<points, masses, pc, query, found, visited, returned, calls>>

\* construct, lines 54-55: compute, then return
Aggregate ==
    /\ pc = "insert"
    /\ i = Len(points)
    /\ octree' = compute(octree)
    /\ visited' = compute_order(octree, <<>>)
    /\ returned' = octree'
    /\ pc' = "done"
    /\ UNCHANGED <<points, masses, i, query, found, routed, calls>>

\* find(idx) on the root of the constructed tree; find changes nothing, so
\* the first query of a run stands for every query
Find ==
    /\ pc = "done"
    /\ query = -1
    /\ \E idx \in 0..(Len(points) + 1) :
         /\ query' = idx
         /\ found' = find(octree, idx, <<>>)
    /\ UNCHANGED <<points, masses, pc, i, octree, routed, visited, returned, calls>>

Next == Start \/ Insert \/ Aggregate \/ Find

Spec == Init /\ [][Next]_vars

\* ------------------------------------- the public interface after construct
ApiPoints == {P(1, 1, 1), P(-2, 1, 0)}

\* pub fn add_point, called on the tree construct returned
ApiAddPoint ==
    /\ pc = "done"
    /\ calls < MaxApiCalls
    /\ \E p \in ApiPoints :
         /\ octree' = add_point(octree, Len(points) + calls, p, 1)
         /\ routed' = Route(Len(points) + calls, p)
    /\ calls' = calls + 1
    /\ UNCHANGED <<points, masses, pc, i, query, found, visited, returned>>

\* pub fn get_child, called on the tree construct returned
ApiGetChild ==
    /\ pc = "done"
    /\ calls < MaxApiCalls
    /\ \E c \in {0, 7} : octree' = get_child(octree, c)
    /\ calls' = calls + 1
    /\ UNCHANGED <<points, masses, pc, i, query, found, routed, visited, returned>>

\* pub fn compute, called on the tree construct returned
ApiCompute ==
    /\ pc = "done"
    /\ calls < MaxApiCalls
    /\ octree' = compute(octree)
    /\ calls' = calls + 1
    /\ UNCHANGED <<points, masses, pc, i, query, found, routed, visited, returned>>

NextApi == Next \/ ApiAddPoint \/ ApiGetChild \/ ApiCompute

SpecApi == InitWith(Tails(1)) /\ [][NextApi]_vars

\* the halvings of the geometry stay on the grid: VDiv loses no bit
GridExact ==
    \A p \in Paths(octree) :
        LET n == NodeAt(octree, p)
        IN  n.children # <<>> => \A k \in 1..3 : n.extent[k] % 4 = 0

\* ---------------------------------------------------- what the claims use
RECURSIVE SumSeq(_, _)
SumSeq(seq, k) == IF k = 0 THEN 0 ELSE SumSeq(seq, k - 1) + seq[k]

\* every occupied slot of a tree, node by node: one <<index, position, mass>>
\* per slot below count
RECURSIVE Entries(_)
Entries(self) ==
    Bucket1(self)
    \o (IF self.children = <<>> THEN <<>>
        ELSE Entries(self.children[1]) \o Entries(self.children[2])
             \o Entries(self.children[3]) \o Entries(self.children[4])
             \o Entries(self.children[5]) \o Entries(self.children[6])
             \o Entries(self.children[7]) \o Entries(self.children[8]))

\* the mass of the points stored in the occupied slots of a node and of all
\* its descendants
RECURSIVE SubtreeMass(_)
SubtreeMass(self) ==
    SumSeq([s \in 1..self.count |-> self.point[3][s - 1]], self.count)
    + (IF self.children = <<>> THEN 0
       ELSE SumSeq([c \in 1..8 |-> SubtreeMass(self.children[c])], 8))

\* the sum of mass * position[k] over the same slots
RECURSIVE SubtreeMoment(_, _)
SubtreeMoment(self, k) ==
    SumSeq([s \in 1..self.count |-> self.point[3][s - 1] * Slot(self, s - 1)[2][k]],
           self.count)
    + (IF self.children = <<>> THEN 0
       ELSE SumSeq([c \in 1..8 |-> SubtreeMoment(self.children[c], k)], 8))

\* no node below the root holds points of total mass zero whose weighted
\* position sum is not zero (so it is when every mass is >= 0)
NoMasslessMoment ==
    \A p \in Paths(octree) \ {<<>>} :
        LET n == NodeAt(octree, p)
        IN  SubtreeMass(n) = 0 => \A k \in 1..3 : SubtreeMoment(n, k) = 0

InputMass == SumSeq(masses, Len(masses))
InputMoment(k) == SumSeq([j \in 1..Len(points) |-> masses[j] * points[j][k]], Len(points))

RoutedTo(p) == IF p \in DOMAIN routed THEN routed[p] ELSE <<>>

\* the closed box center +- extent / 2 of a node holds the position
InBox(self, pos) ==
    \A k \in 1..3 :
        /\ 2 * (pos[k] - self.center[k]) <= self.extent[k]
        /\ 2 * (pos[k] - self.center[k]) >= -self.extent[k]

Depth(self) ==
    LET lens == {Len(p) : p \in Paths(self)}
    IN  CHOOSE d \in lens : \A e \in lens : e <= d

\* ---------------------------------------------------------------- claims

\* C1: after construct, every node's total_mass is the sum of the masses
\* stored in the occupied slots of its own bucket and of its descendants'
\* buckets, and the root's total_mass is the sum of all input masses.
C1_MassConservation ==
    pc = "done" =>
        /\ \A p \in Paths(octree) :
              NodeAt(octree, p).total_mass = SubtreeMass(NodeAt(octree, p))
        /\ octree.total_mass = InputMass

\* a constructed tree whose root overflowed, with mass below the root
C1_Witness ==
    /\ pc = "done"
    /\ octree.children # <<>>
    /\ \E c \in 1..8 : octree.children[c].count >= 2 /\ octree.children[c].total_mass # 0
    /\ octree.total_mass # reduce_add(octree.point[3])

\* C2: after construct on a non-empty input, find(i) of every input index i
\* returns a node, and the position of point i lies in that node's box
\* center +- extent / 2 on each axis.
C2_Containment ==
    (pc = "done" /\ query \in 0..(Len(points) - 1)) =>
        /\ found # <<>>
        /\ InBox(NodeAt(octree, found[1]), points[query + 1])

\* C3: after every prefix of the insertions, each inserted index is stored
\* in exactly one occupied slot of the tree, with the position and the mass
\* given for it, and the counts of all nodes sum to the number inserted.
C3_UniquePlacement ==
    pc \in {"insert", "done"} =>
        LET slots == Entries(octree)
        IN  /\ \A j \in 0..(i - 1) :
                  /\ Cardinality({k \in 1..Len(slots) : slots[k][1] = j}) = 1
                  /\ \E k \in 1..Len(slots) :
                        slots[k] = <<j, points[j + 1], masses[j + 1]>>
            /\ Len(slots) = i

\* insertion is under way and points are stored below an overflowed root
C3_Witness ==
    /\ pc = "insert"
    /\ i >= 10
    /\ octree.children # <<>>
    /\ \E c \in 1..8 : octree.children[c].count >= 1

\* C4: find(idx) returns "not found" for every index never inserted,
\* idx = 0 included, and on the tree of the empty input for every idx.
C4_LookupAbsence ==
    (pc = "done" /\ query >= Len(points)) => found = <<>>

\* C5 as written: a single input point, whatever its mass, gives a root with
\* count 1, no children, com the point's position and total_mass its mass.
C5_SingletonAnyMass ==
    (pc = "done" /\ Len(points) = 1) =>
        /\ octree.count = 1
        /\ octree.children = <<>>
        /\ octree.total_mass = masses[1]
        /\ octree.com = RVOfInt(points[1])

\* C5 amended: a single input point gives a root with count 1, no children
\* and total_mass its mass; com is the point's position when the mass is not
\* zero, and the zero vector when the mass is zero.
C5_Singleton ==
    (pc = "done" /\ Len(points) = 1) =>
        /\ octree.count = 1
        /\ octree.children = <<>>
        /\ octree.total_mass = masses[1]
        /\ octree.com = IF masses[1] # 0 THEN RVOfInt(points[1]) ELSE RZero3

\* a constructed singleton away from the origin with a mass that is not 1
C5_Witness ==
    /\ pc = "done"
    /\ Len(points) = 1
    /\ masses[1] = -1
    /\ points[1] # Zero3
    /\ octree.com = RVOfInt(points[1])

\* the mass-weighted centroid of the input, as a vector of rationals
Centroid == [k \in 1..3 |-> Rat(InputMoment(k), InputMass)]

\* C6 as written: after construct on an input of non-zero total mass, the
\* root's com is the mass-weighted centroid of all input points, however
\* they are spread over the root bucket and the children.
C6_CentroidAnyMass ==
    (pc = "done" /\ InputMass # 0) => octree.com = Centroid

\* C6 amended: after construct on an input whose total mass is not zero and
\* in which no subtree below the root has total mass zero with a weighted
\* position sum that is not zero (every input of masses >= 0 is one), the
\* root's com is the mass-weighted centroid of all input points and its
\* total_mass the sum of the masses (the eight corners of the cube of side 2,
\* masses 1: com the origin, total_mass 8).
C6_Centroid ==
    (pc = "done" /\ InputMass # 0 /\ NoMasslessMoment) =>
        /\ octree.com = Centroid
        /\ octree.total_mass = InputMass
        /\ (points = Corners /\ masses = Ones(8)) =>
              (octree.com = RZero3 /\ octree.total_mass = 8)

\* a constructed tree with weighted points below the root, off the origin
C6_Witness ==
    /\ pc = "done"
    /\ InputMass # 0
    /\ NoMasslessMoment
    /\ octree.children # <<>>
    /\ \E c \in 1..8 : octree.children[c].count >= 2 /\ octree.children[c].total_mass >= 2
    /\ octree.com # RZero3
    /\ octree.com = Centroid

\* one step of add_point(idx, point, ..): every full node the call reaches
\* keeps its bucket, count, center and extent, has eight children afterwards,
\* and all of them but the one the octant code selects are as they were (or
\* as get_child creates them)
NoMigrationStep ==
    i' = i + 1 =>
        LET point == points[i + 1]
            d == descent(octree, point)
        IN  \A p \in Paths(octree) :
                LET n == NodeAt(octree, p)
                    m == NodeAt(octree', p)
                IN  IF n.count = Capacity /\ IsPrefix(p, d)
                    THEN /\ m.point = n.point
                         /\ m.count = n.count
                         /\ m.center = n.center
                         /\ m.extent = n.extent
                         /\ Len(m.children) = 8
                         /\ \A c \in Octants \ {child_idx(n, point)} :
                               m.children[c + 1] =
                                   IF n.children = <<>> THEN new_children(n)[c + 1]
                                   ELSE n.children[c + 1]
                    ELSE IsPrefix(p, d) \/ m = n

\* a node's bucket holds the first min(k, 8) of the k points routed to it, in
\* arrival order
FirstRouted ==
    \A p \in Paths(octree) :
        LET n == NodeAt(octree, p)
            r == RoutedTo(p)
        IN  /\ n.count = Min(Len(r), Capacity)
            /\ \A s \in 0..(n.count - 1) :
                  Slot(n, s) = <<r[s + 1], points[r[s + 1] + 1], masses[r[s + 1] + 1]>>

\* C7: add_point on a node whose count is 8 leaves that node's count, bucket,
\* center and extent unchanged and changes only the subtree of the child the
\* octant code selects; so a node's bucket always holds the first min(k, 8)
\* points routed to it, in arrival order.
C7_NoMigration == [][NoMigrationStep]_vars /\ []FirstRouted

\* points went through a full root and through a full child
C7_Witness ==
    /\ pc = "insert"
    /\ Len(RoutedTo(<<>>)) >= 17
    /\ \E c \in Octants : Len(RoutedTo(<<c>>)) >= 9
    /\ FirstRouted

\* C8: every node has count <= 8; a node has children exactly when more than
\* 8 points were routed to it; a node with children has count 8 and all eight
\* children; a node with count < 8 has none.
C8_Structure ==
    \A p \in Paths(octree) :
        LET n == NodeAt(octree, p)
        IN  /\ n.count <= Capacity
            /\ (n.children # <<>>) <=> (Len(RoutedTo(p)) > Capacity)
            /\ n.children # <<>> => (Len(n.children) = 8 /\ n.count = Capacity)
            /\ n.count < Capacity => n.children = <<>>

\* a full root with children, one of them full with children of its own, and
\* a node that is not full
C8_Witness ==
    /\ octree.children # <<>>
    /\ \E c \in 1..8 : octree.children[c].children # <<>>
    /\ \E c \in 1..8 : octree.children[c].count \in 1..(Capacity - 1)

\* C9: once construct has run compute, no call of add_point, get_child,
\* compute or find changes a bucket or creates children, and every node's
\* total_mass stays the mass of the points stored at and below it.
C9_OneWay ==
    (pc = "done" /\ visited # <<>>) =>
        /\ Paths(octree) = Paths(returned)
        /\ \A p \in Paths(returned) :
              Bucket(NodeAt(octree, p)) = Bucket(NodeAt(returned, p))
        /\ \A p \in Paths(octree) :
              NodeAt(octree, p).total_mass = SubtreeMass(NodeAt(octree, p))

\* C10: construct terminates on every input, coincident and collinear points
\* included: until it returns the guard of its next step holds (the loop is
\* at an index i <= N, which every iteration raises); a point inserted after k others is stored at depth
\* <= k / 8 (it passed at most k / 8 full nodes), the tree is no deeper than
\* (N - 1) / 8, and compute is called once on every node.
C10_Termination ==
    /\ pc \in {"start", "insert", "done"}
    /\ pc = "insert" => i <= Len(points)
    /\ \A p \in Paths(octree) :
          LET n == NodeAt(octree, p)
          IN  \A s \in 0..(n.count - 1) : Len(p) <= n.point[1][s] \div Capacity
    /\ i >= 1 => Depth(octree) <= (i - 1) \div Capacity
    /\ (pc = "done" /\ Len(points) > 0) =>
          /\ Len(visited) = Cardinality(Paths(octree))
          /\ {visited[k] : k \in 1..Len(visited)} = Paths(octree)

\* construct returned on coincident points (a box of zero volume) that
\* reached depth 2
C10_Witness ==
    /\ pc = "done"
    /\ octree.extent = Zero3
    /\ Depth(octree) = 2
    /\ \E p \in Paths(octree) : Len(p) = 2 /\ NodeAt(octree, p).count >= 1

====
